---- MODULE Spec2Model ----
(***************************************************************************)
(* DOMO Monitor (src/app.py): a Streamlit dashboard.  Every user action    *)
(* reruns the script top to bottom against the session state; the two      *)
(* buttons CARREGAR AREA and EXECUTAR ANALISE are the operations.  Remote   *)
(* services (IBGE boundaries, Earth Engine) answer nondeterministically,   *)
(* and a script run may be stopped at a Streamlit call when the user       *)
(* touches a widget while it runs; the session-state writes made so far    *)
(* stay.                                                                   *)
(***************************************************************************)
EXTENDS Integers, Sequences, FiniteSets, TLC

VARIABLES
    connected,      \* result of init_ee_enterprise()                (line 42)
    municipios,     \* result of get_ceara_cities()                  (line 154)
    selecao,        \* value of the municipality multiselect         (line 156)
    modo,           \* value of the lens radio                       (line 144)
    session_state,  \* st.session_state, key -> value                (line 135)
    ee_request,     \* last reduceRegion request sent by calculate_hectares
    clicks,         \* button clicks of the session so far
    geo_call,       \* one call of get_fast_geometry: arguments and return
    eng_call        \* one evaluation of a lens rule: images and rasters

vars == <<connected, municipios, selecao, modo, session_state, ee_request,
          clicks, geo_call, eng_call>>

----------------------------------------------------------------------------
(* Bounds of the model *)

NumMun == 1         \* municipalities the IBGE list endpoint returns
MaxSegs == 2        \* runs of equal pixels in one raster strip
MaxIds == 3         \* ids in one call of get_fast_geometry
MaxClicks == 3      \* button clicks in one session
WideClicks == 2     \* button clicks in one session over the long list

----------------------------------------------------------------------------
(* Python values.  None and every other value are records with disjoint   *)
(* field names, so any two of them can be compared.                        *)

None == [none |-> TRUE]

Str(s) == [str |-> s]

Float(x) == [e4 |-> x]   \* a float, in units of 10^-4

SetMin(S) == CHOOSE x \in S : \A y \in S : x <= y

SetMax(S) == CHOOSE x \in S : \A y \in S : x >= y

----------------------------------------------------------------------------
(* IBGE: municipality list and boundaries *)

IdOf(nome) == 2300000 + nome

\* The list of n municipalities: names 1..n, ids as IBGE numbers them
CityList(n) == [i \in 1..n |-> [id |-> IdOf(i), nome |-> i]]

\* lines 47-51: the JSON list, or [] when the request fails
get_ceara_cities(ok, n) == IF ok THEN CityList(n) ELSE <<>>

\* [m['nome'] for m in municipios]: the options of the multiselect
Options(muns) == {muns[i].nome : i \in 1..Len(muns)}

\* ids = [m['id'] for m in municipios if m['nome'] in selecao]
RECURSIVE IdsOf(_, _)
IdsOf(muns, sel) ==
    IF muns = <<>> THEN <<>>
    ELSE (IF Head(muns).nome \in sel THEN <<Head(muns).id>> ELSE <<>>)
         \o IdsOf(Tail(muns), sel)

\* What one boundary request can answer.
\*   features : a FeatureCollection, geometry under data['features'][0]
\*   geometry : a bare Feature, geometry under data['geometry']
\*   empty    : a Feature whose geometry has no coordinates
\*   http     : requests.get(...) or .json() raises
\*   parse    : JSON without 'features' and 'geometry', or shape() raises
RespKinds == {"features", "geometry", "empty", "http", "parse"}

\* The boundary of a municipality: the grid cells <<lon, lat>> it covers.
Boundary(id) == {<<id - 2300000, (id - 2300000) % 2>>}

\* lines 58-63: the body of the try; Raised when it throws
Raised == [raised |-> TRUE]

FetchShape(id, kind) ==
    CASE kind = "features" -> [cells |-> Boundary(id)]
      [] kind = "geometry" -> [cells |-> Boundary(id)]
      [] kind = "empty"    -> [cells |-> {}]
      [] OTHER             -> Raised

\* lines 55-63: the loop collecting geoms
RECURSIVE CollectGeoms(_, _)
CollectGeoms(mun_ids, resp) ==
    IF mun_ids = <<>> THEN <<>>
    ELSE LET g == FetchShape(Head(mun_ids), resp[Head(mun_ids)])
         IN  (IF g = Raised THEN <<>> ELSE <<g>>)
             \o CollectGeoms(Tail(mun_ids), resp)

\* shapely.ops.unary_union
unary_union(geoms) ==
    [cells |-> UNION {geoms[i].cells : i \in 1..Len(geoms)}]

SIMPLIFY_TOL == 5   \* 0.005 degrees, in thousandths

\* shapely simplify(tol): same region, vertices within tol of the original
simplify(g, tol) == [cells |-> g.cells, tol |-> tol]

get_fast_geometry_drop(mun_ids, resp) ==
    LET geoms == CollectGeoms(mun_ids, resp)
    IN  IF Len(geoms) < Len(mun_ids) THEN None
        ELSE simplify(unary_union(geoms), SIMPLIFY_TOL)

\* lines 54-69
get_fast_geometry(mun_ids, resp) ==
    LET geoms == CollectGeoms(mun_ids, resp)
    IN  IF geoms = <<>> THEN None
        ELSE simplify(unary_union(geoms), SIMPLIFY_TOL)

\* `if geom:` (line 173): None and an empty shapely geometry are falsy
GeomTruthy(geom) == geom # None /\ geom.cells # {}

\* geemap.geopandas_to_ee(gdf).geometry()
ToEE(geom) == [ee_cells |-> geom.cells, ee_tol |-> geom.tol]

\* roi.bounds().getInfo()['coordinates'][0]: the ring of <<lon, lat>>
BoundsRing(roi) ==
    LET w == SetMin({c[1] : c \in roi.ee_cells})
        e == SetMax({c[1] : c \in roi.ee_cells}) + 1
        s == SetMin({c[2] : c \in roi.ee_cells})
        n == SetMax({c[2] : c \in roi.ee_cells}) + 1
    IN  <<<<w, s>>, <<e, s>>, <<e, n>>, <<w, n>>, <<w, s>>>>

\* line 180: [[min lat, min lon], [max lat, max lon]]
MapBounds(b) ==
    [sw |-> <<SetMin({b[i][2] : i \in 1..Len(b)}), SetMin({b[i][1] : i \in 1..Len(b)})>>,
     ne |-> <<SetMax({b[i][2] : i \in 1..Len(b)}), SetMax({b[i][1] : i \in 1..Len(b)})>>]

----------------------------------------------------------------------------
(* Session state helpers *)

keys_to_init == {"roi", "domo_map", "roi_name", "map_bounds", "legend_title",
                 "sat_source", "map_key", "metric_area", "chart_data",
                 "download_url"}

\* st.session_state[k] = v
Put(ss, k, v) == (k :> v) @@ ss

\* lines 165-168
ResetResults(ss) ==
    Put(Put(Put(Put(ss, "domo_map", None), "chart_data", None),
            "metric_area", None), "download_url", None)

----------------------------------------------------------------------------
(* Earth Engine rasters.  A raster is a strip of pixels, run-length        *)
(* encoded: a sequence of runs of n equal pixels.  A source image run is   *)
(* [n, b] with b the band values (integer digital numbers); a computed     *)
(* single-band run is [n, ok, num, den]: masked when ok is FALSE, else the *)
(* value num/den.  Band values of the sample pixels are positive.          *)

Rat(a, b) == [num |-> a, den |-> b]

MaskedPx(n) == [n |-> n, ok |-> FALSE, num |-> 0, den |-> 1]

Px(n, a, b) == [n |-> n, ok |-> TRUE, num |-> a, den |-> b]

Bool01(c) == IF c THEN 1 ELSE 0

\* r < t and r > t for a pixel value r and a threshold t with t.den > 0
RatLt(r, t) ==
    IF r.den > 0 THEN r.num * t.den < t.num * r.den
                 ELSE r.num * t.den > t.num * r.den

RatGt(r, t) ==
    IF r.den > 0 THEN r.num * t.den > t.num * r.den
                 ELSE r.num * t.den < t.num * r.den

\* ee.Image.normalizedDifference([a, b]): (a - b) / (a + b); a negative
\* input masks the pixel
normalizedDifference(img, a, b) ==
    [i \in 1..Len(img) |->
        IF img[i].b[a] < 0 \/ img[i].b[b] < 0 \/ img[i].b[a] + img[i].b[b] = 0
        THEN MaskedPx(img[i].n)
        ELSE Px(img[i].n, img[i].b[a] - img[i].b[b], img[i].b[a] + img[i].b[b])]

\* img.select(band).multiply(0.0000275).add(-0.2), in units of 1/400000:
\* 0.0000275 = 11/400000 and 0.2 = 80000/400000
LandsatReflectance(img, band) ==
    [i \in 1..Len(img) |-> Px(img[i].n, 11 * img[i].b[band] - 80000, 400000)]

\* x.subtract(y).divide(x.add(y)) for two rasters of equal denominator;
\* ee divide returns 0 for division by 0
RatioOfDifference(x, y) ==
    [i \in 1..Len(x) |->
        IF ~(x[i].ok /\ y[i].ok) THEN MaskedPx(x[i].n)
        ELSE IF x[i].num + y[i].num = 0 THEN Px(x[i].n, 0, 1)
        ELSE Px(x[i].n, x[i].num - y[i].num, x[i].num + y[i].num)]

\* image.lt(t), image.gt(t), image.gte(k): 1 or 0, masked where image is
lt(r, t) ==
    [i \in 1..Len(r) |->
        IF r[i].ok THEN Px(r[i].n, Bool01(RatLt(r[i], t)), 1) ELSE r[i]]

gt(r, t) ==
    [i \in 1..Len(r) |->
        IF r[i].ok THEN Px(r[i].n, Bool01(RatGt(r[i], t)), 1) ELSE r[i]]

gte(r, k) ==
    [i \in 1..Len(r) |->
        IF r[i].ok THEN Px(r[i].n, Bool01(r[i].num >= k * r[i].den), 1) ELSE r[i]]

\* a.And(b)
And(x, y) ==
    [i \in 1..Len(x) |->
        IF x[i].ok /\ y[i].ok
        THEN Px(x[i].n, Bool01(x[i].num # 0 /\ y[i].num # 0), 1)
        ELSE MaskedPx(x[i].n)]

\* image.selfMask(): masks the pixels whose value is 0
selfMask(r) ==
    [i \in 1..Len(r) |->
        IF r[i].ok /\ r[i].num # 0 THEN r[i] ELSE MaskedPx(r[i].n)]

\* image.updateMask(mask): valid where both are valid and mask is not 0
updateMask(r, mask) ==
    [i \in 1..Len(r) |->
        IF r[i].ok /\ mask[i].ok /\ mask[i].num # 0 THEN r[i]
        ELSE MaskedPx(r[i].n)]

\* Two runs belong to one connected component: both unmasked, same value
SameComponent(r, i, j) ==
    /\ r[i].ok /\ r[j].ok
    /\ r[i].num = r[j].num /\ r[i].den = r[j].den

\* Runs i..j are pairwise connected through their neighbours
Linked(r, i, j) ==
    \A k \in (IF i <= j THEN i..j ELSE j..i) : SameComponent(r, i, k)

RECURSIVE SumN(_, _, _)
SumN(r, i, j) == IF i > j THEN 0 ELSE r[i].n + SumN(r, i + 1, j)

ComponentSize(r, i) ==
    LET lo == SetMin({j \in 1..i : Linked(r, j, i)})
        hi == SetMax({j \in i..Len(r) : Linked(r, i, j)})
    IN  SumN(r, lo, hi)

\* image.connectedPixelCount(maxSize): the size of each unmasked pixel's
\* component of equal-valued neighbours, capped at maxSize
connectedPixelCount(r, maxSize) ==
    [i \in 1..Len(r) |->
        IF r[i].ok
        THEN Px(r[i].n, IF ComponentSize(r, i) > maxSize THEN maxSize
                        ELSE ComponentSize(r, i), 1)
        ELSE r[i]]

\* Number of pixels a mask selects: valid and not 0
RECURSIVE CountSelected(_)
CountSelected(mask) ==
    IF mask = <<>> THEN 0
    ELSE (IF Head(mask).ok /\ Head(mask).num # 0 THEN Head(mask).n ELSE 0)
         + CountSelected(Tail(mask))

----------------------------------------------------------------------------
(* Index engine: the four lenses (lines 217-298) *)

M_DESMATAMENTO == "Desmatamento (Sentinel)"

M_AGUA == "Espelho D'agua (Landsat)"

M_CLOROFILA == "Clorofila (Sentinel)"

M_QUEIMADAS == "Queimadas (Sentinel)"

\* the options of the radio, in order (line 146)
ModoOptions == <<M_DESMATAMENTO, M_AGUA, M_CLOROFILA, M_QUEIMADAS>>

Modos == {ModoOptions[i] : i \in 1..Len(ModoOptions)}

\* `"Landsat" in modo` and the like: the words each option contains
ModoHas(m, word) ==
    \/ m = M_DESMATAMENTO /\ word \in {"Desmatamento", "Sentinel"}
    \/ m = M_AGUA /\ word \in {"Landsat"}
    \/ m = M_CLOROFILA /\ word \in {"Clorofila", "Sentinel"}
    \/ m = M_QUEIMADAS /\ word \in {"Queimadas", "Sentinel"}

NDVI_NOW_LT == Rat(1, 5)        \* 0.2   (line 255)

NDVI_REF_GT == Rat(9, 20)       \* 0.45  (line 255)

MAX_COUNT == 30                 \* connectedPixelCount(30) (line 256)

MIN_CLUSTER == 15               \* gte(15) (line 256)

MNDWI_GT == Rat(0, 1)           \* 0.0   (line 227)

NDCI_WATER_GT == Rat(-1, 10)    \* -0.1  (line 271)

NBR_LT == Rat(-1, 10)           \* -0.1  (line 287)

SCALE_DEFAULT == 30             \* scale_calc = 30 (line 213)

SCALE_DESMATAMENTO == 20        \* scale_calc = 20 (line 261)

SCALE_COARSE == 50              \* scale_safe = 50 (line 307)

MANY_MUNICIPIOS == 3            \* len(selecao) > 3 (line 307)

NoChart == [col |-> None, band |-> None]

\* vis parameters: min and max in thousandths
Vis(lo, hi, palette) == [min |-> lo, max |-> hi, palette |-> palette]

LandsatWater_loose(img) ==
    LET green == LandsatReflectance(img, "SR_B3")
        swir  == LandsatReflectance(img, "SR_B6")
        mndwi == RatioOfDifference(green, swir)
        mask  == gt(mndwi, NDCI_WATER_GT)
    IN  [mask_final |-> mask,
         layer      |-> [band |-> "MNDWI", px |-> updateMask(mndwi, mask)],
         sat_source |-> Str("Landsat 9"),
         vis_params |-> Vis(0, 600, <<"white", "blue", "navy">>),
         layer_name |-> Str("Agua"),
         img_final  |-> "MNDWI",
         scale_calc |-> SCALE_DEFAULT,
         chart      |-> NoChart]

\* lines 223-233
LandsatWater(img) ==
    LET green == LandsatReflectance(img, "SR_B3")
        swir  == LandsatReflectance(img, "SR_B6")
        mndwi == RatioOfDifference(green, swir)
        mask  == gt(mndwi, MNDWI_GT)
    IN  [mask_final |-> mask,
         layer      |-> [band |-> "MNDWI", px |-> updateMask(mndwi, mask)],
         sat_source |-> Str("Landsat 9"),
         vis_params |-> Vis(0, 600, <<"white", "blue", "navy">>),
         layer_name |-> Str("Agua"),
         img_final  |-> "MNDWI",
         scale_calc |-> SCALE_DEFAULT,
         chart      |-> NoChart]

Desmatamento_small(img, ref_hist) ==
    LET ndvi_now == normalizedDifference(img, "B8", "B4")
        ndvi_ref == normalizedDifference(ref_hist, "B8", "B4")
        alerta   == selfMask(And(lt(ndvi_now, NDVI_NOW_LT), gt(ndvi_ref, NDVI_REF_GT)))
        mask     == gte(connectedPixelCount(alerta, MAX_COUNT), 5)
    IN  [mask_final |-> mask,
         layer      |-> [band |-> "NDVI", px |-> updateMask(alerta, mask)],
         sat_source |-> Str("Sentinel-2"),
         vis_params |-> [palette |-> <<"red">>],
         layer_name |-> Str("Supressao"),
         img_final  |-> "NDVI",
         scale_calc |-> SCALE_DESMATAMENTO,
         chart      |-> [col |-> [months |-> 6, cloud_lt |-> 20], band |-> Str("NDVI")]]

\* lines 247-267
Desmatamento(img, ref_hist) ==
    LET ndvi_now == normalizedDifference(img, "B8", "B4")
        ndvi_ref == normalizedDifference(ref_hist, "B8", "B4")
        alerta   == selfMask(And(lt(ndvi_now, NDVI_NOW_LT), gt(ndvi_ref, NDVI_REF_GT)))
        mask     == gte(connectedPixelCount(alerta, MAX_COUNT), MIN_CLUSTER)
    IN  [mask_final |-> mask,
         layer      |-> [band |-> "NDVI", px |-> updateMask(alerta, mask)],
         sat_source |-> Str("Sentinel-2"),
         vis_params |-> [palette |-> <<"red">>],
         layer_name |-> Str("Supressao"),
         img_final  |-> "NDVI",
         scale_calc |-> SCALE_DESMATAMENTO,
         chart      |-> [col |-> [months |-> 6, cloud_lt |-> 20], band |-> Str("NDVI")]]

\* lines 269-282
Clorofila(img) ==
    LET water_mask == gt(normalizedDifference(img, "B3", "B11"), NDCI_WATER_GT)
        ndci       == normalizedDifference(img, "B5", "B4")
    IN  [mask_final |-> water_mask,
         layer      |-> [band |-> "NDCI", px |-> updateMask(ndci, water_mask)],
         sat_source |-> Str("Sentinel-2"),
         vis_params |-> Vis(0, 150, <<"blue", "lime", "red">>),
         layer_name |-> Str("Clorofila"),
         img_final  |-> "NDCI",
         scale_calc |-> SCALE_DEFAULT,
         chart      |-> [col |-> [months |-> 3, cloud_lt |-> 100], band |-> Str("NDCI")]]

\* lines 284-296
Queimadas(img) ==
    LET nbr  == normalizedDifference(img, "B8", "B12")
        mask == lt(nbr, NBR_LT)
    IN  [mask_final |-> mask,
         layer      |-> [band |-> "NBR", px |-> updateMask(nbr, mask)],
         sat_source |-> Str("Sentinel-2"),
         vis_params |-> Vis(-500, -100, <<"black", "orange", "red">>),
         layer_name |-> Str("Fogo"),
         img_final  |-> "NBR",
         scale_calc |-> SCALE_DEFAULT,
         chart      |-> [col |-> [months |-> 3, cloud_lt |-> 100], band |-> Str("NBR")]]

\* lines 218-298 for a truthy img: the branch the lens selects
LensRule(m, img, ref_hist) ==
    IF ModoHas(m, "Landsat") THEN LandsatWater(img)
    ELSE IF ModoHas(m, "Desmatamento") THEN Desmatamento(img, ref_hist)
    ELSE IF ModoHas(m, "Clorofila") THEN Clorofila(img)
    ELSE Queimadas(img)

----------------------------------------------------------------------------
(* Area and series aggregator *)

\* What stats.getInfo() answers to the area reduction (line 87).
\*   raise : the call throws (timeout, memory, quota)
\*   empty : an empty or null dictionary
\*   nokey : a dictionary without 'area'
\*   null  : {'area': None}
\*   sum   : {'area': the summed pixel area in m2}
ReduceKinds == {"raise", "empty", "nokey", "null", "sum"}

\* ee.Image.pixelArea().updateMask(image_mask) summed: 100 m2 per pixel
MaskAreaM2(image_mask) == 100 * CountSelected(image_mask)

\* lines 71-97.  area_m2 / 10000 is Float(area_m2), in units of 10^-4
calculate_hectares(image_mask, geometry, scale, red) ==
    CASE red = "raise" -> None
      [] red \in {"empty", "nokey"} -> Float(0)
      [] red = "null" -> None        \* None / 10000 raises TypeError
      [] red = "sum" -> Float(MaskAreaM2(image_mask))

\* metric_area = -1 (line 311)
AREA_ERROR == Float(-10000)

\* What one image of the chart collection answers (lines 118-125).
\*   nostats : stats_list[i] is empty
\*   noband  : the metric band is missing
\*   null    : the band's mean is None
\*   val     : a number
RECURSIVE ChartRows(_, _, _, _)
ChartRows(stats, i, metric_band, geometry) ==
    IF i > Len(stats) THEN <<>>
    ELSE (IF stats[i] = "val"
          THEN <<[Data |-> i, Valor |-> [mean_of |-> metric_band, over |-> geometry]]>>
          ELSE <<>>)
         \o ChartRows(stats, i + 1, metric_band, geometry)

\* collection.limit(20)
Limit(seq, k) == IF Len(seq) <= k THEN seq ELSE SubSeq(seq, 1, k)

\* lines 99-132: chart is [raise, stats]
get_time_series_chart(chart, geometry, metric_band) ==
    IF chart.raise THEN None
    ELSE [DataFrame |-> ChartRows(Limit(chart.stats, 20), 1, metric_band, geometry)]

\* Sample answers of the chart collection
ChartAnswers ==
    {[raise |-> TRUE, stats |-> <<>>],
     [raise |-> FALSE, stats |-> <<>>],
     [raise |-> FALSE, stats |-> <<"nostats", "val", "noband", "null">>]}

\* img_final.clip(roi).getDownloadURL({...}) (lines 323-332)
DownloadUrl(img_final, roi, ok) ==
    IF ok THEN [url_of |-> img_final, region |-> roi, scale |-> 100] ELSE None

----------------------------------------------------------------------------
(* Sample pixels: band digital numbers *)

S2(b3, b4, b5, b8, b11, b12) ==
    [B3 |-> b3, B4 |-> b4, B5 |-> b5, B8 |-> b8, B11 |-> b11, B12 |-> b12]

PxForest == S2(1000, 2000, 2500, 6000, 3000, 1000)   \* NDVI 0.50

PxCleared == S2(1000, 4500, 4600, 5500, 3000, 2000)  \* NDVI 0.10

PxEdge == S2(2000, 2000, 2000, 3000, 2000, 3000)     \* NDVI 0.20 exactly

PxHist45 == S2(1000, 1100, 1300, 2900, 3000, 1000)   \* NDVI 0.45 exactly

PxWater == S2(3000, 1000, 1200, 500, 1000, 400)      \* NDWI 0.50

PxBurnt == S2(1000, 1500, 1400, 1000, 3500, 3000)    \* NBR -0.50

L9(b3, b6) == [SR_B3 |-> b3, SR_B6 |-> b6]

PxL9Water == L9(18182, 10909)   \* green 0.30, swir 0.10

PxL9Dry == L9(10000, 20000)     \* green 0.075, swir 0.35

PxL9Equal == L9(15000, 15000)   \* MNDWI 0 exactly

PxL9Dark == L9(5000, 7000)      \* both reflectances negative

NowSamples(m) ==
    IF ModoHas(m, "Landsat") THEN {PxL9Water, PxL9Dry, PxL9Equal, PxL9Dark}
    ELSE {PxForest, PxCleared, PxEdge, PxWater, PxBurnt}

RefSamples == {PxForest, PxHist45}

RunLengths == {5, 10, 20}

\* A scene: runs [n, now, ref] of the current image and, pixel for pixel,
\* of the historical median composite
SceneRuns(m) == [n : RunLengths, now : NowSamples(m), ref : RefSamples]

\* The scenes of j runs
Scenes(m, j) == [1..j -> SceneRuns(m)]

ImgOf(scene) == [i \in 1..Len(scene) |-> [n |-> scene[i].n, b |-> scene[i].now]]

RefOf(scene) == [i \in 1..Len(scene) |-> [n |-> scene[i].n, b |-> scene[i].ref]]

\* The scenes the catalogue may return to a session
SessionScenes(m) ==
    IF ModoHas(m, "Landsat")
    THEN {<<[n |-> 20, now |-> p, ref |-> PxForest]>> : p \in {PxL9Water, PxL9Dry}}
    ELSE {<<[n |-> 20, now |-> p, ref |-> PxForest]>> : p \in {PxForest, PxWater, PxBurnt}}

----------------------------------------------------------------------------------------------------------------------------------------
(* The session *)

\* What EE_KEYS_RAW holds (lines 26-37).
\*   absent  : no secret; ee.Initialize(project=...) with default credentials
\*   badjson : json.loads raises
\*   noemail : JSON without 'client_email'
\*   valid   : a service-account key
KeyKinds == {"absent", "badjson", "noemail", "valid"}

\* lines 24-40; ee_ok: ee.ServiceAccountCredentials and ee.Initialize succeed
init_ee_enterprise(keys, ee_ok) ==
    CASE keys = "absent" -> ee_ok
      [] keys = "badjson" -> FALSE
      [] keys = "noemail" -> FALSE
      [] keys = "valid" -> ee_ok

\* Sample values of str(uuid.uuid4())
Uuids == {"uuid-a", "uuid-b"}

Idle == [pc |-> "idle"]

\* line 99: the default argument reducer=ee.Reducer.mean() is evaluated
\* when the def statement runs, on every script run.  The call raises
\* unless ee.Initialize succeeded
ReducerDefault(conn) == IF conn THEN [reducer |-> "mean"] ELSE Raised

\* The script run gets past line 99.  When it does not, lines 135-137 never
\* run and no widget is rendered: the session state stays empty, and
\* municipios, selecao and modo are never assigned
ScriptRuns == ReducerDefault(connected) # Raised

\* The value of modo while no radio has been rendered
Unrendered == ""

\* st.session_state before line 135
EmptySession == [k \in {} |-> None]

\* lines 134-137, and the widgets' defaults
InitSession ==
    /\ selecao = {}
    /\ modo = IF ScriptRuns THEN ModoOptions[1] ELSE Unrendered
    /\ session_state = IF ScriptRuns THEN [k \in keys_to_init |-> None]
                       ELSE EmptySession
    /\ ee_request = None
    /\ clicks = 0

\* lines 17-42, 99, 154
Init ==
    /\ connected \in {init_ee_enterprise(k, ok) : k \in KeyKinds, ok \in BOOLEAN}
    /\ municipios \in IF ScriptRuns
                      THEN {get_ceara_cities(ok, NumMun) : ok \in BOOLEAN}
                      ELSE {<<>>}
    /\ InitSession
    /\ geo_call = Idle
    /\ eng_call = Idle

\* line 154 at a rerun after the 24 h ttl of the cache: the list is fetched
\* again, and may fail (line 51); without a list no multiselect is
\* rendered and selecao is [] (line 159)
RefreshMunicipios(ok, n) ==
    /\ ScriptRuns
    /\ municipios' = get_ceara_cities(ok, n)
    /\ selecao' = selecao \cap Options(municipios')
    /\ UNCHANGED <<connected, modo, session_state, ee_request, geo_call, eng_call, clicks>>

\* line 156: the user adds or removes one municipality
ToggleMunicipio(nome) ==
    /\ ScriptRuns
    /\ municipios # <<>>
    /\ nome \in Options(municipios)
    /\ selecao' = IF nome \in selecao THEN selecao \ {nome} ELSE selecao \cup {nome}
    /\ UNCHANGED <<connected, municipios, modo, session_state, ee_request,
                   geo_call, eng_call, clicks>>

\* line 144: the user picks a lens
ChooseModo(m) ==
    /\ ScriptRuns
    /\ m # modo
    /\ modo' = m
    /\ UNCHANGED <<connected, municipios, selecao, session_state, ee_request,
                   geo_call, eng_call, clicks>>

\* What one load meets.  resp: boundary id -> answer; conv_ok:
\* geopandas_to_ee succeeds; bounds_ok: bounds().getInfo() succeeds; key:
\* the uuid drawn; stop: the user touches a widget while the boundaries are
\* fetched, and Streamlit ends the script run at the spinner of the cached
\* get_fast_geometry (line 171)
LoadAnswers(ids, kinds) ==
    [resp : [ids -> kinds], conv_ok : BOOLEAN, bounds_ok : BOOLEAN, key : Uuids,
     stop : {FALSE}]
    \cup [resp : [ids -> {"features"}], conv_ok : {TRUE}, bounds_ok : {TRUE},
          key : {"uuid-a"}, stop : {TRUE}]

\* lines 162-184 on the session state (an exception ends the script run,
\* the writes made so far stay)
LoadAreaState(ss, muns, sel, a) ==
    IF sel = {} THEN ss
    ELSE LET s1   == ResetResults(ss)
             geom == get_fast_geometry(IdsOf(muns, sel), a.resp)
         IN  IF a.stop THEN s1
             ELSE IF ~GeomTruthy(geom) THEN s1
             ELSE IF ~a.conv_ok THEN s1
             ELSE LET s2 == Put(Put(s1, "roi", ToEE(geom)), "roi_name", Str(sel))
                  IN  IF ~a.bounds_ok THEN s2
                      ELSE Put(Put(s2, "map_bounds", MapBounds(BoundsRing(ToEE(geom)))),
                               "map_key", Str(a.key))

\* line 161: disabled=not connected
LoadAreaEnabled == connected

\* line 161: the CARREGAR AREA button
LoadAreaWith(a) ==
    /\ ScriptRuns
    /\ LoadAreaEnabled
    /\ session_state' = LoadAreaState(session_state, municipios, selecao, a)
    /\ clicks' = clicks + 1
    /\ UNCHANGED <<connected, municipios, selecao, modo, ee_request,
                   geo_call, eng_call>>

SelectedIds == {IdOf(n) : n \in selecao}

LoadArea ==
    /\ clicks < MaxClicks
    /\ \E a \in LoadAnswers(SelectedIds, RespKinds) : LoadAreaWith(a)

\* line 307
ScaleSafe(sel, scale_calc) ==
    IF Cardinality(sel) > MANY_MUNICIPIOS THEN SCALE_COARSE ELSE scale_calc

\* Where a run of the handler ends.  A Streamlit call made after the user
\* touched a widget ends the script run there, and the writes made so far
\* stay.
\*   branch  : leaving the spinner block of the lens (lines 219, 238)
\*   warning : st.warning (line 312)
\*   spinner : entering st.spinner (line 318)
\*   chart   : leaving that spinner block (line 320)
\*   none    : st.rerun (line 334)
StopPoints == {"branch", "warning", "spinner", "chart", "none"}

\* img = ....first() (lines 221, 240-242) is an ee.Image proxy, truthy
\* whether or not the catalogue holds a qualifying image (lines 223, 244).
\* Without one it is the null image: a strip of no pixels
SceneOf(img) == IF img = None THEN <<>> ELSE img.scene

\* stats.getInfo() (line 87): a computation on the null image raises
ReduceOf(a) == IF a.img = None THEN "raise" ELSE a.red

\* getDownloadURL (line 324) raises on the null image
UrlOk(a) == a.img # None /\ a.url_ok

\* line 317
HasChart(r) == r.chart.col # None /\ r.chart.band # None

\* lines 301-332 on the session state, for the rule r of the lens
Finalize(ss, sel, r, a) ==
    LET roi     == ss["roi"]
        s1      == Put(Put(ss, "legend_title", r.layer_name), "vis_params", r.vis_params)
        area_ha == calculate_hectares(r.mask_final, roi,
                                      ScaleSafe(sel, r.scale_calc), ReduceOf(a))
        s2      == Put(s1, "metric_area", IF area_ha = None THEN AREA_ERROR ELSE area_ha)
        s3      == IF HasChart(r)
                   THEN Put(s2, "chart_data",
                            get_time_series_chart(a.chart, roi, r.chart.band))
                   ELSE s2
    IN  IF a.stop \in {"warning", "spinner"} THEN s2
        ELSE IF a.stop = "chart" THEN s3
        ELSE Put(s3, "download_url", DownloadUrl(r.img_final, roi, UrlOk(a)))

\* The handler reaches the stop point of a: st.warning only when the area
\* is None (line 310), the chart spinner only for a lens with a chart
StopReached(ss, sel, m, a) ==
    LET r == LensRule(m, ImgOf(SceneOf(a.img)), RefOf(SceneOf(a.img)))
    IN  /\ a.stop = "warning"
           => calculate_hectares(r.mask_final, ss["roi"],
                                 ScaleSafe(sel, r.scale_calc), ReduceOf(a)) = None
        /\ a.stop \in {"spinner", "chart"} => HasChart(r)

\* What one run meets.  img: None when the catalogue has no qualifying
\* image, else a scene; red: the area reduction; chart: the chart
\* collection; url_ok: getDownloadURL succeeds; stop: where the run ends.
\* The answers the run does not get to are fixed.
RunAnswers(imgs, reds, charts, urls) ==
    [img : imgs, red : reds, chart : charts, url_ok : urls, stop : {"none"}]
    \cup [img : imgs, red : {"raise"}, chart : {[raise |-> TRUE, stats |-> <<>>]},
          url_ok : {FALSE}, stop : {"branch"}]
    \cup [img : imgs, red : reds, chart : {[raise |-> TRUE, stats |-> <<>>]},
          url_ok : {FALSE}, stop : {"warning", "spinner"}]
    \cup [img : imgs, red : reds, chart : charts, url_ok : {FALSE}, stop : {"chart"}]

\* lines 206-334 on the session state
RunState(ss, sel, m, a) ==
    LET r  == LensRule(m, ImgOf(SceneOf(a.img)), RefOf(SceneOf(a.img)))
        s0 == Put(Put(ss, "domo_map", [layer |-> r.layer, clip |-> ss["roi"]]),
                  "sat_source", r.sat_source)
    IN  IF a.stop = "branch" THEN s0 ELSE Finalize(s0, sel, r, a)

\* the request calculate_hectares sends (lines 77-84)
RunRequest(req, sel, m, a) ==
    IF a.stop = "branch" THEN req
    ELSE [scale |-> ScaleSafe(sel, LensRule(m, ImgOf(SceneOf(a.img)),
                                            RefOf(SceneOf(a.img))).scale_calc),
          tileScale |-> 4]

\* line 187
RunEnabled == ScriptRuns /\ session_state["roi"] # None /\ connected

\* line 205: the EXECUTAR ANALISE button
RunAnalysisWith(a) ==
    /\ RunEnabled
    /\ StopReached(session_state, selecao, modo, a)
    /\ session_state' = RunState(session_state, selecao, modo, a)
    /\ ee_request' = RunRequest(ee_request, selecao, modo, a)
    /\ clicks' = clicks + 1
    /\ UNCHANGED <<connected, municipios, selecao, modo, geo_call, eng_call>>

ImgAnswers(m) == {None} \cup {[scene |-> q] : q \in SessionScenes(m)}

RunAnalysis ==
    /\ clicks < MaxClicks
    /\ \E a \in RunAnswers(ImgAnswers(modo), ReduceKinds, ChartAnswers, BOOLEAN) :
          RunAnalysisWith(a)

Next ==
    \/ \E nome \in 1..NumMun : ToggleMunicipio(nome)
    \/ \E m \in Modos : ChooseModo(m)
    \/ LoadArea
    \/ RunAnalysis
    \/ \E ok \in BOOLEAN : RefreshMunicipios(ok, NumMun)

Spec == Init /\ [][Next]_vars

----------------------------------------------------------------------------
(* A session over a list of more than MANY_MUNICIPIOS municipalities, with *)
(* every Earth Engine and boundary call succeeding.                        *)

WideCount == MANY_MUNICIPIOS + 1

InitWide ==
    /\ connected = init_ee_enterprise("valid", TRUE)
    /\ municipios = get_ceara_cities(TRUE, WideCount)
    /\ InitSession
    /\ geo_call = Idle
    /\ eng_call = Idle

WideLoadAnswers ==
    {a \in LoadAnswers(SelectedIds, {"features"}) :
        a.conv_ok /\ a.bounds_ok /\ a.key = "uuid-a"}

LoadAreaWide ==
    /\ clicks < WideClicks
    /\ \E a \in WideLoadAnswers : LoadAreaWith(a)

WideRunAnswers ==
    RunAnswers(ImgAnswers(modo) \ {None}, {"sum"},
               {[raise |-> FALSE, stats |-> <<"nostats", "val", "noband", "null">>]},
               {TRUE})

RunAnalysisWide ==
    /\ clicks < WideClicks
    /\ \E a \in WideRunAnswers : RunAnalysisWith(a)

NextWide ==
    \/ \E nome \in 1..WideCount : ToggleMunicipio(nome)
    \/ \E m \in Modos : ChooseModo(m)
    \/ LoadAreaWide
    \/ RunAnalysisWide
    \/ \E ok \in BOOLEAN : RefreshMunicipios(ok, WideCount)

SpecWide == InitWide /\ [][NextWide]_vars

----------------------------------------------------------------------------
(* get_fast_geometry alone: every list of ids the load handler can pass,   *)
(* every pattern of answers.                                               *)

GeoCalls ==
    UNION {{[pc |-> "call", mun_ids |-> IdsOf(CityList(MaxIds), sel),
             resp |-> r, ret |-> None] : r \in [{IdOf(n) : n \in sel} -> RespKinds]}
           : sel \in SUBSET (1..MaxIds)}

InitGeo ==
    /\ connected = init_ee_enterprise("valid", TRUE)
    /\ municipios = get_ceara_cities(TRUE, MaxIds)
    /\ InitSession
    /\ geo_call \in GeoCalls
    /\ eng_call = Idle

GeoReturn ==
    /\ geo_call.pc = "call"
    /\ geo_call' = [geo_call EXCEPT
                      !.pc = "ret",
                      !.ret = get_fast_geometry(geo_call.mun_ids, geo_call.resp)]
    /\ UNCHANGED <<connected, municipios, selecao, modo, session_state,
                   ee_request, eng_call, clicks>>

NextGeo == GeoReturn

SpecGeo == InitGeo /\ [][NextGeo]_vars

----------------------------------------------------------------------------
(* The lens rules alone: every lens on every scene of up to MaxSegs runs.  *)

EngCall(m, q) == [pc |-> "call", modo |-> m, scene |-> q]

InitEngine ==
    /\ connected = init_ee_enterprise("valid", TRUE)
    /\ municipios = get_ceara_cities(TRUE, NumMun)
    /\ InitSession
    /\ geo_call = Idle
    /\ \E m \in Modos, j \in 1..MaxSegs :
          \E q \in Scenes(m, j) : eng_call = EngCall(m, q)

EvalLens ==
    /\ eng_call.pc = "call"
    /\ LET r == LensRule(eng_call.modo, ImgOf(eng_call.scene), RefOf(eng_call.scene))
       IN  eng_call' = [pc |-> "done", modo |-> eng_call.modo,
                        scene |-> eng_call.scene,
                        mask_final |-> r.mask_final, layer |-> r.layer]
    /\ UNCHANGED <<connected, municipios, selecao, modo, session_state,
                   ee_request, geo_call, clicks>>

NextEngine == EvalLens

SpecEngine == InitEngine /\ [][NextEngine]_vars

----------------------------------------------------------------------------
(* Properties *)

AllLoadAnswers == LoadAnswers(SelectedIds, RespKinds)

AllRunAnswers == RunAnswers(ImgAnswers(modo), ReduceKinds, ChartAnswers, BOOLEAN)

\* C1: a load with a non-empty selection for which get_fast_geometry
\* returns None leaves the whole session state as it was before the click.
C1_FailedLoadKeepsState ==
    [][\A a \in AllLoadAnswers :
          (/\ LoadAreaWith(a)
           /\ selecao # {}
           /\ get_fast_geometry(IdsOf(municipios, selecao), a.resp) = None)
          => session_state' = session_state]_vars

\* C2: in a run on an image that gets to the area reduction, a reduction
\* that yields no numeric area makes calculate_hectares return None and
\* metric_area the error sentinel -1; metric_area is 0 only when the
\* reduction succeeded and the summed area is zero.
C2_FailureNeverZero ==
    [][\A a \in AllRunAnswers :
          (RunAnalysisWith(a) /\ a.img # None /\ a.stop # "branch")
          => LET r == LensRule(modo, ImgOf(a.img.scene), RefOf(a.img.scene))
             IN  /\ a.red # "sum"
                    => /\ calculate_hectares(r.mask_final, session_state["roi"],
                                             ScaleSafe(selecao, r.scale_calc),
                                             a.red) = None
                       /\ session_state'["metric_area"] = AREA_ERROR
                 /\ session_state'["metric_area"] = Float(0)
                    => a.red = "sum" /\ MaskAreaM2(r.mask_final) = 0]_vars

\* C3: a run that found no qualifying image (it writes the layer of the
\* null image) never leaves metric_area reading 0.0, the value a run that
\* computed a zero detected area leaves; so the two outcomes are never
\* the same state.
C3_NoImageNotZeroArea ==
    [][(/\ session_state' # session_state
        /\ session_state'["domo_map"] # None
        /\ session_state'["domo_map"].layer.px = SceneOf(None))
       => session_state'["metric_area"] # Float(0)]_vars

\* The boundary request of id resolved: it gave a geometry
Resolved(kind) == kind \in {"features", "geometry", "empty"}

\* C4: get_fast_geometry returns None exactly when every id failed to
\* resolve; otherwise it returns the union of exactly the boundaries that
\* resolved, simplified with tolerance 0.005.
C4_GeometryPartialResults ==
    geo_call.pc = "ret" =>
        LET ids == {geo_call.mun_ids[i] : i \in 1..Len(geo_call.mun_ids)}
            ok  == {id \in ids : Resolved(geo_call.resp[id])}
        IN  /\ geo_call.ret = None <=> ok = {}
            /\ geo_call.ret # None =>
                 /\ geo_call.ret.tol = SIMPLIFY_TOL
                 /\ geo_call.ret.cells =
                      UNION {IF geo_call.resp[id] = "empty" THEN {} ELSE Boundary(id)
                             : id \in ok}

\* C4 witness: a call in which one id failed and another resolved, and the
\* resolved boundary is in the result.
C4_Witness ==
    /\ geo_call.pc = "ret"
    /\ Len(geo_call.mun_ids) >= 2
    /\ geo_call.resp[geo_call.mun_ids[1]] = "http"
    /\ geo_call.resp[geo_call.mun_ids[2]] = "geometry"
    /\ geo_call.ret # None
    /\ Boundary(geo_call.mun_ids[2]) \subseteq geo_call.ret.cells

\* C5: when init_ee_enterprise failed, every session-state field is, and
\* stays, at its initial None and no request is sent to Earth Engine.
C5_DisconnectedNothingHappens ==
    ~connected =>
        /\ session_state = [k \in keys_to_init |-> None]
        /\ ee_request = None

\* The runs of a scene whose pixels satisfy both vegetation conditions:
\* current NDVI < 0.2, i.e. 5 (NIR - Red) < NIR + Red, and historical
\* NDVI > 0.45, i.e. 20 (NIR - Red) > 9 (NIR + Red)
LossCondition(run) ==
    /\ 5 * (run.now.B8 - run.now.B4) < run.now.B8 + run.now.B4
    /\ 20 * (run.ref.B8 - run.ref.B4) > 9 * (run.ref.B8 + run.ref.B4)

RECURSIVE ClusterLeft(_, _)
ClusterLeft(scene, i) ==
    IF i < 1 \/ ~LossCondition(scene[i]) THEN 0
    ELSE scene[i].n + ClusterLeft(scene, i - 1)

RECURSIVE ClusterRight(_, _)
ClusterRight(scene, i) ==
    IF i > Len(scene) \/ ~LossCondition(scene[i]) THEN 0
    ELSE scene[i].n + ClusterRight(scene, i + 1)

\* Pixels in the connected cluster of run i
ClusterPixels(scene, i) ==
    ClusterLeft(scene, i) + ClusterRight(scene, i) - scene[i].n

\* C6: for the vegetation-loss lens a pixel is in the displayed and in the
\* measured mask exactly when current NDVI < 0.2, historical NDVI > 0.45
\* and its connected cluster of such pixels has at least 15 pixels.
C6_VegetationLossMask ==
    (eng_call.pc = "done" /\ eng_call.modo = M_DESMATAMENTO) =>
        \A i \in 1..Len(eng_call.scene) :
            LET flagged == /\ LossCondition(eng_call.scene[i])
                           /\ ClusterPixels(eng_call.scene, i) >= 15
            IN  /\ eng_call.layer.px[i].ok <=> flagged
                /\ (eng_call.mask_final[i].ok /\ eng_call.mask_final[i].num # 0)
                   <=> flagged

\* C6 witness: historical 0.50 and current 0.10; a 20-pixel cluster is
\* flagged next to nothing, and a 5-pixel cluster beside forest is not.
C6_Witness ==
    /\ eng_call.pc = "done"
    /\ eng_call.modo = M_DESMATAMENTO
    /\ Len(eng_call.scene) = 2
    /\ eng_call.scene[1] = [n |-> 20, now |-> PxCleared, ref |-> PxForest]
    /\ eng_call.scene[2] = [n |-> 5, now |-> PxForest, ref |-> PxForest]
    /\ eng_call.layer.px[1].ok
    /\ ~eng_call.layer.px[2].ok

\* The rules the three other lenses apply to one current pixel
WaterRule(now) ==
    LET green == 11 * now.SR_B3 - 80000
        swir  == 11 * now.SR_B6 - 80000
    IN  \/ green + swir > 0 /\ green - swir > 0
        \/ green + swir < 0 /\ green - swir < 0

ChlorophyllSupport(now) == 10 * (now.B3 - now.B11) > -(now.B3 + now.B11)

BurnRule(now) == 10 * (now.B8 - now.B12) < -(now.B8 + now.B12)

\* C7: the water, chlorophyll and burn masks are functions of the current
\* pixel alone: water iff MNDWI > 0.0, chlorophyll support iff the water
\* index > -0.1 with the NDCI value itself not thresholded, burn iff
\* NBR < -0.1, whatever the historical composite holds.
C7_CurrentImageLenses ==
    (eng_call.pc = "done" /\ eng_call.modo # M_DESMATAMENTO) =>
        \A i \in 1..Len(eng_call.scene) :
            LET now == eng_call.scene[i].now
                sel == eng_call.mask_final[i].ok /\ eng_call.mask_final[i].num # 0
                px  == eng_call.layer.px[i]
            IN  CASE eng_call.modo = M_AGUA ->
                       /\ sel <=> WaterRule(now)
                       /\ px.ok <=> WaterRule(now)
                  [] eng_call.modo = M_CLOROFILA ->
                       /\ sel <=> ChlorophyllSupport(now)
                       /\ px.ok <=> ChlorophyllSupport(now)
                       /\ px.ok => /\ px.num = now.B5 - now.B4
                                   /\ px.den = now.B5 + now.B4
                  [] eng_call.modo = M_QUEIMADAS ->
                       /\ sel <=> BurnRule(now)
                       /\ px.ok <=> BurnRule(now)

\* C7 witness: the water lens on green 0.30, swir 0.10: index 0.50 (to
\* three decimals), mask true.
C7_Witness ==
    /\ eng_call.pc = "done"
    /\ eng_call.modo = M_AGUA
    /\ eng_call.scene = <<[n |-> 10, now |-> PxL9Water, ref |-> PxHist45]>>
    /\ eng_call.mask_final[1].num = 1
    /\ eng_call.layer.px[1].ok
    /\ (1000 * eng_call.layer.px[1].num) \div eng_call.layer.px[1].den = 500

\* C8: after a run that produces a mask (the step writes a new domo_map),
\* every result field holds a value that run produced for its lens, on one
\* of the scenes the catalogue can answer; a lens without a chart leaves
\* no chart of another run.
C8_ResultsFromSameRun ==
    [][(session_state' # session_state /\ session_state'["domo_map"] # None)
       => \E q \in {SceneOf(i) : i \in ImgAnswers(modo)} :
            \E r \in {LensRule(modo, ImgOf(q), RefOf(q))} :
               LET roi == session_state["roi"]
                   ss  == session_state'
               IN  /\ ss["domo_map"] = [layer |-> r.layer, clip |-> roi]
                   /\ ss["sat_source"] = r.sat_source
                   /\ ss["legend_title"] = r.layer_name
                   /\ ss["vis_params"] = r.vis_params
                   /\ ss["download_url"] \in
                        {DownloadUrl(r.img_final, roi, ok) : ok \in BOOLEAN}
                   /\ ss["metric_area"] \in
                        {AREA_ERROR, Float(0), Float(MaskAreaM2(r.mask_final))}
                   /\ ss["chart_data"] \in
                        IF r.chart.col # None
                        THEN {get_time_series_chart(c, roi, r.chart.band)
                              : c \in ChartAnswers}
                        ELSE {None}]_vars

\* C9: a run on an ROI loaded from more than 3 municipalities requests the
\* area at scale 50, and a run on an ROI loaded from 3 or fewer at the
\* lens's own scale, whatever the multiselect shows at the run.
C9_ScaleFollowsRoi ==
    [][\A a \in WideRunAnswers :
          (RunAnalysisWith(a) /\ a.stop # "branch")
          => LET r == LensRule(modo, ImgOf(a.img.scene), RefOf(a.img.scene))
             IN  ee_request'.scale =
                   IF Cardinality(session_state["roi_name"].str) > 3
                   THEN 50 ELSE r.scale_calc]_vars

\* C10: roi, roi_name, map_bounds and map_key derive from the same load,
\* and each result field is None or was computed on the current roi.
C10_RoiReplacedWholesale ==
    LET ss == session_state
    IN  DOMAIN ss # {} =>
        /\ ss["roi"] = None
           => ss["roi_name"] = None /\ ss["map_bounds"] = None /\ ss["map_key"] = None
        /\ ss["roi"] # None
           => /\ ss["roi_name"] # None
              /\ ss["roi"].ee_cells \subseteq
                   UNION {Boundary(IdOf(n)) : n \in ss["roi_name"].str}
              /\ ss["map_bounds"] = MapBounds(BoundsRing(ss["roi"]))
              /\ ss["map_key"] # None
        /\ ss["domo_map"] # None => ss["domo_map"].clip = ss["roi"]
        /\ ss["download_url"] # None => ss["download_url"].region = ss["roi"]
        /\ ss["chart_data"] \notin {None, [DataFrame |-> <<>>]}
           => \A i \in 1..Len(ss["chart_data"].DataFrame) :
                 ss["chart_data"].DataFrame[i].Valor.over = ss["roi"]

====
